---- MODULE Spec2Model ----
(***************************************************************************)
(* PySME configuration resolution: config_loader.load_pysme_config with    *)
(* its environment overrides and logging side effect, the BuildConfig and  *)
(* TailwindConfig records (builder/), and the error taxonomy's             *)
(* wrap_exception scope (errors.py).                                       *)
(*                                                                         *)
(* Python values.  A str is a TLA+ string; None in an Optional[str] slot   *)
(* is the sentinel NoneStr.  A value of a slot typed Any or Optional[bool] *)
(* is a tagged record (PyNone, PyBool(b), PyInt(n), PyDict(d),             *)
(* PyBuildConfig(r), PyTailwindConfig(r)).  A dict is a function from its  *)
(* keys, a list of str is a sequence.                                      *)
(***************************************************************************)
EXTENDS Integers, Sequences, FiniteSets, TLC

VARIABLES
    environ,        \* os.environ restricted to the PYSME_* names: name -> str or NoneStr
    script,         \* the config file on disk (or its absence)
    log,            \* the 'pysme' logger and logging._is_configured
    call,           \* the arguments of the load call in progress or just returned
    ret,            \* what that call handed to its caller: a return value or a raised error
    pc,             \* "idle" | "returned"
    pyc,            \* the bytecode in __pycache__ stamped with the script's current mtime
    configured,     \* the arguments of the configure_logging call that completed last
                    \* within the operation just returned
    ctor_args,      \* BuildConfig construction: the keyword arguments / mapping given
    ctor_ret,       \* BuildConfig construction: the instance built or the error raised
    excs,           \* the exception objects alive, by identity
    scope,          \* the wrap_exception scope entered (cls, message, kwargs)
    raised,         \* the error the protected block raised: its identity (0: none) and what it was
    leaving,        \* what leaves the with statement
    heap,           \* the mutable dict objects alive, by address
    opA,            \* TailwindConfig a (self)
    opB,            \* TailwindConfig b (other)
    opC,            \* TailwindConfig c = a.merge(b), once merged
    snapA,          \* deep value of a before the merge
    snapB,          \* deep value of b before the merge
    mutations,      \* number of mutations applied to c
    given,          \* the exception handed to the HTTP boundary
    response        \* what the boundary made of it: (status, body) or a dict

loadVars  == <<environ, script, log, call, ret, pc, pyc, configured>>
ctorVars  == <<ctor_args, ctor_ret>>
wrapVars  == <<excs, scope, raised, leaving>>
mergeVars == <<heap, opA, opB, opC, snapA, snapB, mutations>>
mapVars   == <<given, response>>
vars      == <<loadVars, ctorVars, wrapVars, mergeVars, mapVars>>

----------------------------------------------------------------------------
(* Python values *)

NoneStr == "<None>"
PyNone == [type |-> "NoneType"]
PyBool(b) == [type |-> "bool", val |-> b]
PyInt(n) == [type |-> "int", val |-> n]
PyDict(d) == [type |-> "dict", val |-> d]
PyBuildConfig(r) == [type |-> "BuildConfig", val |-> r]
PyTailwindConfig(r) == [type |-> "TailwindConfig", val |-> r]

\* dict.get / getattr(obj, name, default)
Get(d, k, default) == IF k \in DOMAIN d THEN d[k] ELSE default

\* {**a, **b}: b's entries over a's
Update(a, b) == [k \in DOMAIN a \cup DOMAIN b |-> IF k \in DOMAIN b THEN b[k] ELSE a[k]]

EmptyDict == [k \in {} |-> 0]

\* bool(x) for the tagged values a script can bind to debug
Truthy(x) ==
    CASE x.type = "NoneType" -> FALSE
      [] x.type = "bool" -> x.val
      [] x.type = "int" -> x.val # 0
      [] OTHER -> TRUE

----------------------------------------------------------------------------
(* builder/config.py *)

VALID_OPT_LEVELS == {"release", "debug"}

BuildFields == {"entry_point", "output_dir", "static_dir", "wasm_target",
                "optimization_level", "bundle_splitting", "tree_shaking"}

BuildDefaults ==
    [entry_point |-> "pages/index.component.pysme",
     output_dir |-> "dist",
     static_dir |-> "static",
     wasm_target |-> "web",
     optimization_level |-> "release",
     bundle_splitting |-> FALSE,
     tree_shaking |-> FALSE]

Returned(v) == [kind |-> "return", val |-> v]
Raised(cls) == [kind |-> "raise", exc |-> cls]

\* BuildConfig.__post_init__: the check of the optimization level
BadOptLevel(self) == self.optimization_level \notin VALID_OPT_LEVELS

PostInit(self) ==
    IF BadOptLevel(self) THEN Raised("ValueError") ELSE Returned(self)

\* BuildConfig(**kwargs): the dataclass __init__ (defaults, then the keywords), then __post_init__
NewBuildConfig(kwargs) ==
    IF DOMAIN kwargs \subseteq BuildFields
    THEN PostInit(Update(BuildDefaults, kwargs))
    ELSE Raised("TypeError")

\* BuildConfig.from_dict
BuildFromDict(data) ==
    LET allowed == BuildFields
        filtered == [k \in DOMAIN data \cap allowed |-> data[k]]
    IN NewBuildConfig(filtered)

----------------------------------------------------------------------------
(* builder/tailwind.py: the record by value, as the loader handles it *)

TailwindDefaults ==
    [content |-> <<"**/*.pysme", "**/*.py">>,
     theme |-> EmptyDict,
     plugins |-> <<>>]

\* TailwindConfig.from_dict
TailwindFromDict(data) ==
    [content |-> Get(data, "content", <<>>),
     theme |-> Get(data, "theme", EmptyDict),
     plugins |-> Get(data, "plugins", <<>>)]

----------------------------------------------------------------------------
(* The standard library, on the strings the model draws *)

\* str.strip
StrStrip(s) ==
    CASE s = " YES " -> "YES"
      [] s = " TRUE " -> "TRUE"
      [] s = " " -> ""
      [] s = " b" -> "b"
      [] OTHER -> s

\* str.lower
StrLower(s) ==
    CASE s = "YES" -> "yes"
      [] s = "TRUE" -> "true"
      [] s = "Off" -> "off"
      [] OTHER -> s

\* str.upper
StrUpper(s) ==
    CASE s = "debug" -> "DEBUG"
      [] s = "loud" -> "LOUD"
      [] s = "warning" -> "WARNING"
      [] s = "basic_format" -> "BASIC_FORMAT"
      [] OTHER -> s

\* str.split(",")
SplitComma(s) ==
    CASE s = "a, b" -> <<"a", " b">>
      [] s = "a, ,a" -> <<"a", " ", "a">>
      [] s = "," -> <<"", "">>
      [] OTHER -> <<s>>

\* json.loads: the parsed document, or JSONDecodeError
JsonLoads(s) ==
    CASE s = "{\"k\": 1}" -> Returned([k |-> 1])
      [] s = "{}" -> Returned(EmptyDict)
      [] OTHER -> Raised("JSONDecodeError")

\* str.startswith("_")
StartsWithUnderscore(s) == s \in {"_secret", "__name__"}

\* getattr(logging, name, logging.INFO): a level, or the one upper-case attribute
\* of the logging module that is not a level
BASIC_FORMAT == "%(levelname)s:%(name)s:%(message)s"

LoggingLevels == {"NOTSET", "DEBUG", "INFO", "WARNING", "ERROR", "CRITICAL"}

LoggingAttr(name) ==
    CASE name \in LoggingLevels -> name
      [] name = "WARN" -> "WARNING"
      [] name = "FATAL" -> "CRITICAL"
      [] name = "BASIC_FORMAT" -> BASIC_FORMAT
      [] OTHER -> "INFO"

----------------------------------------------------------------------------
(* utils/logging.py *)

StrTruthy(v) == v # NoneStr /\ v # ""

Getenv(env, name) == Get(env, name, NoneStr)

\* the level configure_logging computes from its arguments and PYSME_LOG_LEVEL
RootLevel(level, debug, env) ==
    LET env_level == Getenv(env, "PYSME_LOG_LEVEL")
    IN IF StrTruthy(level) THEN LoggingAttr(StrUpper(level))
       ELSE IF debug = PyBool(TRUE) THEN "DEBUG"
       ELSE IF debug = PyBool(FALSE) THEN "INFO"
       ELSE IF StrTruthy(env_level) THEN LoggingAttr(StrUpper(env_level))
       ELSE "INFO"

\* the formatter configure_logging builds
JsonMode(json_mode, env) ==
    IF json_mode = PyNone
    THEN LET raw == Getenv(env, "PYSME_LOG_JSON")
             env_json == StrLower(StrStrip(IF raw = NoneStr THEN "" ELSE raw))
         IN env_json \in {"1", "true", "yes", "on"}
    ELSE json_mode.val

Formatter(json_mode, env) ==
    IF JsonMode(json_mode, env) THEN "JSONFormatter" ELSE "ColorFormatter"

\* Handlers without the _is_configured guard: a StreamHandler added on every call
HandlersAddedEachCall(lg, formatter) == Append(lg.handlers, formatter)

\* the handlers of the logger after configure_logging: one StreamHandler added on
\* the first call, every handler's formatter replaced on the later ones
Handlers(lg, formatter) ==
    IF ~lg.is_configured
    THEN Append(lg.handlers, formatter)
    ELSE [i \in DOMAIN lg.handlers |-> formatter]

\* configure_logging(level, debug, json_mode): the logger afterwards, or the
\* ValueError of Logger.setLevel for a level that is none
configure_logging(level, debug, json_mode, env, lg) ==
    LET root_level == RootLevel(level, debug, env)
        formatter == Formatter(json_mode, env)
    IN IF root_level \notin LoggingLevels
       THEN Raised("ValueError")
       ELSE Returned([level |-> root_level,
                      handlers |-> Handlers(lg, formatter),
                      is_configured |-> TRUE])

\* the logger before the module is imported
Unconfigured == [level |-> "NOTSET", handlers |-> <<>>, is_configured |-> FALSE]

\* get_logger() at import: logger = get_logger()
get_logger(env, lg) == configure_logging(NoneStr, PyNone, PyNone, env, lg)

----------------------------------------------------------------------------
(* config_loader.py *)

\* _bool_from_env
bool_from_env(v) ==
    IF v = NoneStr THEN PyNone
    ELSE LET w == StrLower(StrStrip(v))
         IN IF w \in {"1", "true", "yes", "on"} THEN PyBool(TRUE)
            ELSE IF w \in {"0", "false", "no", "off"} THEN PyBool(FALSE)
            ELSE PyNone

\* [s.strip() for s in parts if s.strip()]
RECURSIVE StripNonEmpty(_)
StripNonEmpty(parts) ==
    IF parts = <<>> THEN <<>>
    ELSE LET s == StrStrip(Head(parts))
         IN (IF s # "" THEN <<s>> ELSE <<>>) \o StripNonEmpty(Tail(parts))

\* an Optional[list] / Optional[dict]: None, or the value
Nothing == [none |-> TRUE]
Some(v) == [none |-> FALSE, val |-> v]

\* _list_from_env
list_from_env(v) ==
    IF ~StrTruthy(v) THEN Nothing
    ELSE Some(StripNonEmpty(SplitComma(v)))

\* _json_from_env: the parsed value, or None with a warning logged on a decode error
json_from_env(v) ==
    IF ~StrTruthy(v) THEN [obj |-> Nothing, logged |-> <<>>]
    ELSE LET r == JsonLoads(v)
         IN IF r.kind = "raise"
            THEN [obj |-> Nothing, logged |-> <<"warning">>]
            ELSE [obj |-> Some(r.val), logged |-> <<>>]

\* StrOverride with the precedence the wrong way round: the variable fills a field
\* only while the field still holds its default
StrOverrideDefaultOnly(env, name, field, build) ==
    LET v == Getenv(env, name)
    IN IF StrTruthy(v) /\ build[field] = BuildDefaults[field]
       THEN [build EXCEPT ![field] = v]
       ELSE build

\* one `if v := os.getenv(name): build.<field> = v`
StrOverride(env, name, field, build) ==
    LET v == Getenv(env, name)
    IN IF StrTruthy(v) THEN [build EXCEPT ![field] = v] ELSE build

\* one `if v := os.getenv(name): b = _bool_from_env(v); if b is not None: build.<field> = b`
BoolOverride(env, name, field, build) ==
    LET v == Getenv(env, name)
        b == bool_from_env(v)
    IN IF StrTruthy(v) /\ b # PyNone THEN [build EXCEPT ![field] = b.val] ELSE build

\* one `if v := os.getenv(name): l = _list_from_env(v); if l is not None: tailwind.<field> = l`
ListOverride(env, name, field, tailwind) ==
    LET v == Getenv(env, name)
        l == list_from_env(v)
    IN IF StrTruthy(v) /\ ~l.none THEN [tailwind EXCEPT ![field] = l.val] ELSE tailwind

ThemeOverride(env, tailwind) ==
    LET v == Getenv(env, "PYSME_TAILWIND_THEME")
        theme_obj == json_from_env(v).obj
    IN IF StrTruthy(v) /\ ~theme_obj.none
       THEN [tailwind EXCEPT !.theme = theme_obj.val]
       ELSE tailwind

\* _apply_env_overrides, the build half: the record after the seven assignments
BuildOverrides(env, build) ==
    LET b1 == StrOverride(env, "PYSME_ENTRY_POINT", "entry_point", build)
        b2 == StrOverride(env, "PYSME_OUTPUT_DIR", "output_dir", b1)
        b3 == StrOverride(env, "PYSME_STATIC_DIR", "static_dir", b2)
        b4 == StrOverride(env, "PYSME_WASM_TARGET", "wasm_target", b3)
        b5 == StrOverride(env, "PYSME_OPT_LEVEL", "optimization_level", b4)
        b6 == BoolOverride(env, "PYSME_BUNDLE_SPLITTING", "bundle_splitting", b5)
    IN BoolOverride(env, "PYSME_TREE_SHAKING", "tree_shaking", b6)

\* _apply_env_overrides, the tailwind half
TailwindOverrides(env, tailwind) ==
    LET t1 == ListOverride(env, "PYSME_TAILWIND_CONTENT", "content", tailwind)
        t2 == ThemeOverride(env, t1)
    IN ListOverride(env, "PYSME_TAILWIND_PLUGINS", "plugins", t2)

\* _apply_env_overrides: both records after the call, and what it logged
apply_env_overrides(env, build, tailwind) ==
    [build |-> BuildOverrides(env, build),
     tailwind |-> TailwindOverrides(env, tailwind),
     logged |-> IF StrTruthy(Getenv(env, "PYSME_TAILWIND_THEME"))
                THEN json_from_env(Getenv(env, "PYSME_TAILWIND_THEME")).logged
                ELSE <<>>]

\* LoadedConfigs
LoadedConfigs(build, tailwind, raw) == [build |-> build, tailwind |-> tailwind, raw |-> raw]

\* _make_defaults
make_defaults == LoadedConfigs(BuildDefaults, TailwindDefaults, EmptyDict)

\* what a call of load_pysme_config leaves behind: the value returned or the error
\* raised, the logger calls it made, and the logger afterwards
Outcome(result, logged, lg) == [result |-> result, logged |-> logged, log |-> lg]

\* the config file: whether the path exists, whether spec_from_file_location
\* gives a spec with a loader for it, how exec_module ends ("ok", or the class of
\* the error the script raises), and the module's namespace after a run that ends ok
ExceptionClasses == {"Exception", "ValueError", "TypeError", "JSONDecodeError"}
BaseOnlyClasses == {"SystemExit", "KeyboardInterrupt"}

\* `except Exception` catches cls
CaughtAsException(cls) == cls \in ExceptionClasses

\* raw_vars = {k: v for k, v in vars(module).items() if not k.startswith("_")}; an
\* entry that is the BuildConfig / TailwindConfig instance is the very object the
\* overrides then assign to
RawVars(ns, build_conf, tailwind_conf) ==
    [k \in {n \in DOMAIN ns : ~StartsWithUnderscore(n)} |->
        IF k = "build_config" /\ ns[k].type = "BuildConfig" THEN PyBuildConfig(build_conf)
        ELSE IF k = "tailwind_config" /\ ns[k].type = "TailwindConfig"
             THEN PyTailwindConfig(tailwind_conf)
        ELSE ns[k]]

\* lines 136-144: the build_config binding to a BuildConfig
ExtractBuild(ns) ==
    LET bc == Get(ns, "build_config", PyNone)
    IN IF bc.type = "BuildConfig" THEN Returned(bc.val)
       ELSE IF bc.type = "dict" THEN BuildFromDict(bc.val)
       ELSE IF bc = PyNone THEN NewBuildConfig(EmptyDict)
       ELSE Raised("TypeError")

\* lines 146-156: the tailwind_config binding to a TailwindConfig
ExtractTailwind(ns) ==
    LET tc == Get(ns, "tailwind_config", PyNone)
    IN IF tc.type = "TailwindConfig" THEN Returned(tc.val)
       ELSE IF tc.type = "dict" THEN Returned(TailwindFromDict(tc.val))
       ELSE IF tc = PyNone THEN Returned(TailwindDefaults)
       ELSE Raised("TypeError")

\* DebugFlag with the precedence the wrong way round: PYSME_DEBUG first
DebugFlagEnvFirst(ns, env) ==
    LET env_debug == bool_from_env(Getenv(env, "PYSME_DEBUG"))
    IN IF env_debug # PyNone THEN env_debug ELSE Get(ns, "debug", PyNone)

\* lines 161-165: the debug flag
DebugFlag(ns, env) ==
    LET debug_flag == Get(ns, "debug", PyNone)
    IN IF debug_flag = PyNone
       THEN LET env_debug == bool_from_env(Getenv(env, "PYSME_DEBUG"))
            IN IF env_debug # PyNone THEN env_debug ELSE debug_flag
       ELSE debug_flag

\* lines 167-170: configure_logging(debug=...), and configure_logging() if that raises
ConfigureFromFlag(debug_flag, env, lg) ==
    LET first == configure_logging(NoneStr,
                     IF debug_flag # PyNone THEN PyBool(Truthy(debug_flag)) ELSE PyNone,
                     PyNone, env, lg)
    IN IF first.kind = "raise" /\ CaughtAsException(first.exc)
       THEN configure_logging(NoneStr, PyNone, PyNone, env, lg)
       ELSE first

\* LoadMissing without lines 110-111: the defaults as they are, whatever apply_env says
LoadMissingPlain(env, apply_env, lg) ==
    LET conf == configure_logging(NoneStr, PyNone, PyNone, env, lg)
    IN IF conf.kind = "raise"
       THEN Outcome(Raised(conf.exc), <<"info">>, lg)
       ELSE Outcome(Returned(make_defaults), <<"info">>, conf.val)

\* lines 106-114: the path does not exist
LoadMissing(env, apply_env, lg) ==
    LET cfgs == make_defaults
        over == IF apply_env
                THEN apply_env_overrides(env, cfgs.build, cfgs.tailwind)
                ELSE [build |-> cfgs.build, tailwind |-> cfgs.tailwind, logged |-> <<>>]
        conf == configure_logging(NoneStr, PyNone, PyNone, env, lg)
        logged == <<"info">> \o over.logged
    IN IF conf.kind = "raise"
       THEN Outcome(Raised(conf.exc), logged, lg)
       ELSE Outcome(Returned(LoadedConfigs(over.build, over.tailwind, cfgs.raw)),
                    logged, conf.val)

\* lines 133-173: the module executed
LoadExecuted(ns, env, apply_env, lg) ==
    LET b == ExtractBuild(ns)
        t == ExtractTailwind(ns)
    IN IF b.kind = "raise" THEN Outcome(b, <<>>, lg)
       ELSE IF t.kind = "raise" THEN Outcome(t, <<>>, lg)
       ELSE LET over == IF apply_env
                        THEN apply_env_overrides(env, b.val, t.val)
                        ELSE [build |-> b.val, tailwind |-> t.val, logged |-> <<>>]
                conf == ConfigureFromFlag(DebugFlag(ns, env), env, lg)
            IN IF conf.kind = "raise"
               THEN Outcome(Raised(conf.exc), over.logged, lg)
               ELSE Outcome(
                        Returned(LoadedConfigs(over.build, over.tailwind,
                                               RawVars(ns, over.build, over.tailwind))),
                        over.logged \o <<"info">>, conf.val)

\* load_pysme_config without the try/except around exec_module
load_pysme_config_unguarded(file, env, apply_env, lg) ==
    IF ~file.exists THEN LoadMissing(env, apply_env, lg)
    ELSE IF ~file.has_loader THEN Outcome(Returned(make_defaults), <<"error">>, lg)
    ELSE IF file.exec # "ok" THEN Outcome(Raised(file.exec), <<>>, lg)
    ELSE LoadExecuted(file.ns, env, apply_env, lg)

\* load_pysme_config(config_path, apply_env), config_path naming the file `file`
load_pysme_config(file, env, apply_env, lg) ==
    IF ~file.exists THEN LoadMissing(env, apply_env, lg)
    ELSE IF ~file.has_loader THEN Outcome(Returned(make_defaults), <<"error">>, lg)
    ELSE IF file.exec # "ok"
         THEN IF CaughtAsException(file.exec)
              THEN Outcome(Returned(make_defaults), <<"error">>, lg)
              ELSE Outcome(Raised(file.exec), <<>>, lg)
    ELSE LoadExecuted(file.ns, env, apply_env, lg)

\* reload_pysme_config
reload_pysme_config(file, env, apply_env, lg) == load_pysme_config(file, env, apply_env, lg)

\* the arguments of a configure_logging call; NoConf when no call completed
ConfArgs(level, debug, json_mode) ==
    [none |-> FALSE, level |-> level, debug |-> debug, json_mode |-> json_mode]

NoConf == [none |-> TRUE]

\* the configure_logging call with these arguments completes
Completes(args, env, lg) ==
    configure_logging(args.level, args.debug, args.json_mode, env, lg).kind = "return"

\* the configure_logging call a resolution completes last: configure_logging() on the
\* missing path (line 113); configure_logging(debug=...) at line 168, or the
\* configure_logging() of line 170 when that one raised; none on the paths that
\* return or raise before
LastConfigure(file, env, lg) ==
    LET plain == ConfArgs(NoneStr, PyNone, PyNone)
        flag == DebugFlag(file.ns, env)
        first == ConfArgs(NoneStr,
                          IF flag # PyNone THEN PyBool(Truthy(flag)) ELSE PyNone,
                          PyNone)
    IN IF ~file.exists THEN (IF Completes(plain, env, lg) THEN plain ELSE NoConf)
       ELSE IF ~file.has_loader \/ file.exec # "ok" THEN NoConf
       ELSE IF ExtractBuild(file.ns).kind = "raise" \/ ExtractTailwind(file.ns).kind = "raise"
            THEN NoConf
       ELSE IF Completes(first, env, lg) THEN first
       ELSE IF Completes(plain, env, lg) THEN plain
       ELSE NoConf

----------------------------------------------------------------------------
(* The inputs of the loader: environments and config files *)

\* how many PYSME_* variables are set at once
MaxEnvSet == 2

EnvNames == {"PYSME_ENTRY_POINT", "PYSME_OUTPUT_DIR", "PYSME_STATIC_DIR",
             "PYSME_WASM_TARGET", "PYSME_OPT_LEVEL", "PYSME_BUNDLE_SPLITTING",
             "PYSME_TREE_SHAKING", "PYSME_TAILWIND_CONTENT", "PYSME_TAILWIND_THEME",
             "PYSME_TAILWIND_PLUGINS", "PYSME_DEBUG", "PYSME_LOG_LEVEL",
             "PYSME_LOG_JSON"}

EnvValues(name) ==
    CASE name = "PYSME_ENTRY_POINT" -> {"src/app.pysme"}
      [] name = "PYSME_OUTPUT_DIR" -> {"build"}
      [] name = "PYSME_STATIC_DIR" -> {"", "public"}
      [] name = "PYSME_WASM_TARGET" -> {"node"}
      [] name = "PYSME_OPT_LEVEL" -> {"release", "fast"}
      [] name = "PYSME_BUNDLE_SPLITTING" -> {" YES ", "Off", "maybe"}
      [] name = "PYSME_TREE_SHAKING" -> {"1"}
      [] name = "PYSME_TAILWIND_CONTENT" -> {"a, b", ","}
      [] name = "PYSME_TAILWIND_THEME" -> {"{\"k\": 1}", "{bad"}
      [] name = "PYSME_TAILWIND_PLUGINS" -> {"a, ,a"}
      [] name = "PYSME_DEBUG" -> {" TRUE ", "0", "maybe"}
      [] name = "PYSME_LOG_LEVEL" -> {"debug", "loud", "basic_format"}
      [] name = "PYSME_LOG_JSON" -> {"1"}

EmptyEnviron == [n \in EnvNames |-> NoneStr]

EnvSet(env) == {n \in EnvNames : env[n] # NoneStr}

File(exists, has_loader, exec, ns) ==
    [exists |-> exists, has_loader |-> has_loader, exec |-> exec, ns |-> ns]

MissingFile == File(FALSE, FALSE, "ok", EmptyDict)

\* a path that exists but for whose suffix importlib has no loader
NoLoaderFile == File(TRUE, FALSE, "ok", EmptyDict)

\* build_config = BuildConfig(...), as src/pysme/test.py builds it, with two
\* fields off their defaults
ScriptBuild ==
    [BuildDefaults EXCEPT !.optimization_level = "debug", !.bundle_splitting = TRUE]

ScriptTailwind ==
    [content |-> <<"**/*.pysme">>, theme |-> [extend |-> EmptyDict], plugins |-> <<>>]

Bind(name, value) == [k \in {name} |-> value]

BuildBindings ==
    {EmptyDict,
     Bind("build_config", PyBuildConfig(ScriptBuild)),
     Bind("build_config", PyDict([optimization_level |-> "debug", minify |-> "yes"])),
     Bind("build_config", PyDict([optimization_level |-> "fast"])),
     Bind("build_config", PyInt(3))}

TailwindBindings ==
    {EmptyDict,
     Bind("tailwind_config", PyTailwindConfig(ScriptTailwind)),
     Bind("tailwind_config", PyDict([plugins |-> <<"forms">>])),
     Bind("tailwind_config", PyInt(3))}

DebugBindings ==
    {EmptyDict,
     Bind("debug", PyNone),
     Bind("debug", PyBool(TRUE)),
     Bind("debug", PyBool(FALSE))}

OtherBindings == Update(Bind("title", PyInt(1)), Bind("_secret", PyInt(2)))

\* the namespaces of the scripts drawn: one kind of binding varied at a time, and
\* the debug binding beside a build_config
Namespaces ==
    BuildBindings \cup TailwindBindings \cup DebugBindings \cup {OtherBindings}
    \cup {Update(Bind("build_config", PyBuildConfig(ScriptBuild)), d) : d \in DebugBindings}

Files ==
    {MissingFile, NoLoaderFile}
    \cup {File(TRUE, TRUE, e, EmptyDict) : e \in {"ValueError", "SystemExit"}}
    \cup {File(TRUE, TRUE, "ok", ns) : ns \in Namespaces}

----------------------------------------------------------------------------
(* spec.loader.exec_module(module): the source file and its cached bytecode *)

\* the line of a script that makes the binding name = value
SourceLine(name, value) ==
    CASE value = PyNone -> name \o " = None"
      [] value.type = "bool" -> name \o (IF value.val THEN " = True" ELSE " = False")
      [] value.type = "int" -> name \o " = 0"
      [] value = PyDict([optimization_level |-> "debug", minify |-> "yes"]) ->
            name \o " = {'optimization_level': 'debug', 'minify': 'yes'}"
      [] value = PyDict([optimization_level |-> "fast"]) ->
            name \o " = {'optimization_level': 'fast'}"
      [] value = PyDict([plugins |-> <<"forms">>]) ->
            name \o " = {'plugins': ['forms']}"
      [] value.type = "BuildConfig" ->
            name \o " = BuildConfig(optimization_level='debug', bundle_splitting=True)"
      [] value.type = "TailwindConfig" ->
            name \o " = TailwindConfig(content=['**/*.pysme'], theme={'extend': {}})"

\* the source of a script that raises
RaisingSource(exc) ==
    CASE exc = "ValueError" -> "raise ValueError('bad config')"
      [] exc = "SystemExit" -> "raise SystemExit(3)"
      [] OTHER -> "raise " \o exc \o "()"

\* the size in bytes of the lines binding `names`, one newline each
RECURSIVE LinesSize(_, _)
LinesSize(ns, names) ==
    IF names = {} THEN 0
    ELSE LET n == CHOOSE x \in names : TRUE
         IN Len(SourceLine(n, ns[n])) + 1 + LinesSize(ns, names \ {n})

\* os.stat(path).st_size
SourceSize(file) ==
    IF file.exec # "ok" THEN Len(RaisingSource(file.exec)) + 1
    ELSE LinesSize(file.ns, DOMAIN file.ns)

\* no bytecode in __pycache__ carries the source's mtime
NoPyc == [valid |-> FALSE]

\* source_to_code: the code object of the file's source, stamped with the source's
\* mtime and size when it is written to __pycache__
Compile(file) ==
    [valid |-> TRUE, exec |-> file.exec, ns |-> file.ns, size |-> SourceSize(file)]

\* SourceFileLoader.get_code: the cached bytecode is taken without reading the
\* source when its stamp (mtime in whole seconds, size) equals the source's
get_code(file, cache) ==
    IF cache.valid /\ cache.size = SourceSize(file) THEN cache ELSE Compile(file)

\* the file as exec_module runs it.  The module comes from module_from_spec and is
\* never entered in sys.modules, so `del sys.modules[_MODULE_NAME]` finds nothing
Executable(file, cache) ==
    IF file.exists /\ file.has_loader
    THEN LET code == get_code(file, cache)
         IN File(TRUE, TRUE, code.exec, code.ns)
    ELSE file

\* __pycache__ after the call: exec_module leaves the bytecode of what it ran
CacheAfter(file, cache) ==
    IF file.exists /\ file.has_loader THEN get_code(file, cache) ELSE cache

----------------------------------------------------------------------------
(* The loader's state machine *)

\* the other parts at rest
CtorParked == ctor_args = EmptyDict /\ ctor_ret = [kind |-> "none"]
WrapParked ==
    /\ excs = <<>>
    /\ scope = [cls |-> "none"]
    /\ raised = [id |-> 0]
    /\ leaving = [kind |-> "none"]
MergeParked ==
    /\ heap = <<>>
    /\ opA = [content |-> 0] /\ opB = [content |-> 0] /\ opC = [content |-> 0]
    /\ snapA = [content |-> 0] /\ snapB = [content |-> 0]
    /\ mutations = 0
MapParked == given = [cls |-> "none"] /\ response = [kind |-> "none"]

otherThanLoad == <<ctorVars, wrapVars, mergeVars, mapVars>>

NoCall == [apply_env |-> FALSE]
NoRet == [result |-> [kind |-> "none"], logged |-> <<>>]

LoadInit ==
    /\ environ = EmptyEnviron
    /\ script = MissingFile
    /\ log = get_logger(EmptyEnviron, Unconfigured).val
    /\ call = NoCall
    /\ ret = NoRet
    /\ pc = "idle"
    /\ pyc = NoPyc
    /\ configured = NoConf

\* os.environ[name] = value, between two calls
SetEnv(name, value) ==
    /\ pc = "idle"
    /\ environ[name] # value
    /\ environ' = [environ EXCEPT ![name] = value]
    /\ Cardinality(EnvSet(environ')) <= MaxEnvSet
    /\ UNCHANGED <<script, log, call, ret, pc, pyc, configured>>
    /\ UNCHANGED otherThanLoad

\* del os.environ[name]
UnsetEnv(name) ==
    /\ pc = "idle"
    /\ environ[name] # NoneStr
    /\ environ' = [environ EXCEPT ![name] = NoneStr]
    /\ UNCHANGED <<script, log, call, ret, pc, pyc, configured>>
    /\ UNCHANGED otherThanLoad

\* the user writes, edits or deletes the config file, at a later second than the
\* file's last change: no bytecode kept in __pycache__ carries the new mtime
WriteScript(file) ==
    /\ pc = "idle"
    /\ script # file
    /\ script' = file
    /\ pyc' = NoPyc
    /\ UNCHANGED <<environ, log, call, ret, pc, configured>>
    /\ UNCHANGED otherThanLoad

\* the same, within the second of the file's last change: the mtime the bytecode
\* was stamped with is still the file's
QuickEdit(file) ==
    /\ pc = "idle"
    /\ script # file
    /\ script' = file
    /\ UNCHANGED <<environ, log, call, ret, pc, pyc, configured>>
    /\ UNCHANGED otherThanLoad

Finish(apply_env, out) ==
    /\ call' = [apply_env |-> apply_env]
    /\ ret' = [result |-> out.result, logged |-> out.logged]
    /\ log' = out.log
    /\ pc' = "returned"
    /\ UNCHANGED <<environ, script>>
    /\ UNCHANGED otherThanLoad

\* load_pysme_config(path, apply_env): the call as a whole, exec_module running the
\* code SourceFileLoader hands it and leaving that code's bytecode in __pycache__
Load(apply_env) ==
    /\ pc = "idle"
    /\ Finish(apply_env, load_pysme_config(Executable(script, pyc), environ, apply_env, log))
    /\ pyc' = CacheAfter(script, pyc)
    /\ configured' = LastConfigure(Executable(script, pyc), environ, log)

Reload(apply_env) ==
    /\ pc = "idle"
    /\ Finish(apply_env, reload_pysme_config(Executable(script, pyc), environ, apply_env, log))
    /\ pyc' = CacheAfter(script, pyc)
    /\ configured' = LastConfigure(Executable(script, pyc), environ, log)

\* the caller takes the result and goes on
Resume ==
    /\ pc = "returned"
    /\ pc' = "idle"
    /\ call' = NoCall
    /\ ret' = NoRet
    /\ configured' = NoConf
    /\ UNCHANGED <<environ, script, log, pyc>>
    /\ UNCHANGED otherThanLoad

Init == LoadInit /\ CtorParked /\ WrapParked /\ MergeParked /\ MapParked

Next ==
    \/ \E n \in EnvNames : \E v \in EnvValues(n) : SetEnv(n, v)
    \/ \E n \in EnvNames : UnsetEnv(n)
    \/ \E f \in Files : WriteScript(f)
    \/ \E a \in BOOLEAN : Load(a)
    \/ \E a \in BOOLEAN : Reload(a)
    \/ Resume

Spec == Init /\ [][Next]_vars

\* a watch loop: the script is edited and reloaded, also twice within a second.
\* Two variables set at most, out of the two the results below depend on.
ReloadEnvNames == {"PYSME_OUTPUT_DIR", "PYSME_DEBUG"}

\* a script that binds `other` where OtherBindings binds `title`
RenamedBindings == Update(Bind("other", PyInt(1)), Bind("_secret", PyInt(2)))

ReloadFiles == Files \cup {File(TRUE, TRUE, "ok", RenamedBindings)}

NextReload ==
    \/ \E n \in ReloadEnvNames : \E v \in EnvValues(n) : SetEnv(n, v)
    \/ \E n \in ReloadEnvNames : UnsetEnv(n)
    \/ \E f \in ReloadFiles : WriteScript(f)
    \/ \E f \in ReloadFiles : QuickEdit(f)
    \/ \E a \in BOOLEAN : Load(a)
    \/ \E a \in BOOLEAN : Reload(a)
    \/ Resume

SpecReload == Init /\ [][NextReload]_vars

\* what a direct call of configure_logging leaves: the logger reconfigured, or the
\* error raised and the logger as it was
Configured(args) ==
    /\ LET r == configure_logging(args.level, args.debug, args.json_mode, environ, log)
       IN /\ log' = IF r.kind = "return" THEN r.val ELSE log
          /\ ret' = [result |-> IF r.kind = "return" THEN Returned(PyNone) ELSE r,
                     logged |-> <<>>]
          /\ configured' = IF r.kind = "return" THEN args ELSE NoConf
    /\ call' = NoCall
    /\ pc' = "returned"
    /\ UNCHANGED <<environ, script, pyc>>
    /\ UNCHANGED otherThanLoad

\* configure_logging(level, debug, json_mode)
Configure(level, debug, json_mode) ==
    /\ pc = "idle"
    /\ Configured(ConfArgs(level, debug, json_mode))

\* get_logger()
GetLogger ==
    /\ pc = "idle"
    /\ Configured(ConfArgs(NoneStr, PyNone, PyNone))

\* the arguments drawn for configure_logging
LevelArgs == {NoneStr, "warning", "basic_format"}
OptionalBools == {PyNone, PyBool(TRUE), PyBool(FALSE)}

\* the variables the logging configuration reads
LogEnvNames == {"PYSME_LOG_LEVEL", "PYSME_LOG_JSON", "PYSME_DEBUG"}

NextLog ==
    \/ \E n \in LogEnvNames : \E v \in EnvValues(n) : SetEnv(n, v)
    \/ \E n \in LogEnvNames : UnsetEnv(n)
    \/ \E f \in Files : WriteScript(f)
    \/ \E a \in BOOLEAN : Load(a)
    \/ \E a \in BOOLEAN : Reload(a)
    \/ \E l \in LevelArgs : \E d \in OptionalBools : \E j \in OptionalBools :
          Configure(l, d, j)
    \/ GetLogger
    \/ Resume

SpecLog == Init /\ [][NextLog]_vars

----------------------------------------------------------------------------
(* Claims about the loader *)

\* the call has returned a LoadedConfigs to its caller
HasReturned == pc = "returned" /\ ret.result.kind = "return"

\* the script was executed to its end
Executed == script.exists /\ script.has_loader /\ script.exec = "ok"

\* the table of _apply_env_overrides: variable and field
StrEnvFields ==
    {<<"PYSME_ENTRY_POINT", "entry_point">>, <<"PYSME_OUTPUT_DIR", "output_dir">>,
     <<"PYSME_STATIC_DIR", "static_dir">>, <<"PYSME_WASM_TARGET", "wasm_target">>,
     <<"PYSME_OPT_LEVEL", "optimization_level">>}

BoolEnvFields ==
    {<<"PYSME_BUNDLE_SPLITTING", "bundle_splitting">>,
     <<"PYSME_TREE_SHAKING", "tree_shaking">>}

\* the boolean spellings of section 4.3
SaysTrue(v) == v # NoneStr /\ StrLower(StrStrip(v)) \in {"1", "true", "yes", "on"}
SaysFalse(v) == v # NoneStr /\ StrLower(StrStrip(v)) \in {"0", "false", "no", "off"}

\* every build variable that is set, non-empty and parseable shows in `build`
EnvShowsIn(build) ==
    /\ \A p \in StrEnvFields : StrTruthy(environ[p[1]]) => build[p[2]] = environ[p[1]]
    /\ \A p \in BoolEnvFields :
          /\ SaysTrue(environ[p[1]]) => build[p[2]] = TRUE
          /\ SaysFalse(environ[p[1]]) => build[p[2]] = FALSE

\* C1: with apply_env, for a script that ran and provides a build_config, every
\* build field whose PYSME_* variable is set to a non-empty, parseable value holds
\* the environment's value in the returned config, not the script's
C1_EnvWinsOverScript ==
    (HasReturned /\ call.apply_env /\ Executed /\ "build_config" \in DOMAIN script.ns)
        => EnvShowsIn(ret.result.val.build)

\* C1's case: the script says debug, PYSME_OPT_LEVEL says release, release is returned
C1_Witness ==
    /\ HasReturned /\ call.apply_env /\ Executed
    /\ "build_config" \in DOMAIN script.ns
    /\ script.ns["build_config"] = PyBuildConfig(ScriptBuild)
    /\ ScriptBuild.optimization_level = "debug"
    /\ environ["PYSME_OPT_LEVEL"] = "release"
    /\ ret.result.val.build.optimization_level = "release"

\* C2: every BuildConfig a load or reload returns has optimization_level in
\* {release, debug}
C2_ReturnedOptLevelValid ==
    HasReturned => ret.result.val.build.optimization_level \in VALID_OPT_LEVELS

\* the script exists, can be loaded, and raises while it runs
ExecFailed == script.exists /\ script.has_loader /\ script.exec # "ok"

DefaultsReturned ==
    /\ ret.result = Returned(make_defaults)
    /\ "error" \in {ret.logged[i] : i \in DOMAIN ret.logged}

\* C4 as stated: whatever makes the script's execution fail, the call logs it and
\* returns the default configs
C4_AnyFailureGivesDefaults ==
    (pc = "returned" /\ ExecFailed) => DefaultsReturned

\* C4 amended: when the script's execution fails with an error derived from
\* Exception, the call logs it and returns the default configs
C4_ExceptionGivesDefaults ==
    (pc = "returned" /\ ExecFailed /\ script.exec \in ExceptionClasses) => DefaultsReturned

\* C4's case: the script raised, overrides were asked for and set, plain defaults came back
C4_Witness ==
    /\ pc = "returned" /\ ExecFailed /\ script.exec = "ValueError"
    /\ call.apply_env /\ environ["PYSME_OPT_LEVEL"] = "fast"
    /\ DefaultsReturned

\* the tailwind overrides section 4.3 describes, on top of `tailwind`
ExpectedTailwind(tailwind) ==
    LET c == environ["PYSME_TAILWIND_CONTENT"]
        t == environ["PYSME_TAILWIND_THEME"]
        p == environ["PYSME_TAILWIND_PLUGINS"]
    IN [content |-> IF StrTruthy(c) THEN StripNonEmpty(SplitComma(c)) ELSE tailwind.content,
        theme |-> IF StrTruthy(t) /\ JsonLoads(t).kind = "return"
                  THEN JsonLoads(t).val ELSE tailwind.theme,
        plugins |-> IF StrTruthy(p) THEN StripNonEmpty(SplitComma(p)) ELSE tailwind.plugins]

\* a build field no set, parseable variable names keeps the value of `base`
Untouched(build, base) ==
    /\ \A p \in StrEnvFields : ~StrTruthy(environ[p[1]]) => build[p[2]] = base[p[2]]
    /\ \A p \in BoolEnvFields :
          (~SaysTrue(environ[p[1]]) /\ ~SaysFalse(environ[p[1]])) => build[p[2]] = base[p[2]]

\* the missing-path call returned, with the overrides on the defaults or the plain defaults
MissingPathResult ==
    /\ ret.result.kind = "return"
    /\ call.apply_env =>
          /\ EnvShowsIn(ret.result.val.build)
          /\ Untouched(ret.result.val.build, BuildDefaults)
          /\ ret.result.val.tailwind = ExpectedTailwind(TailwindDefaults)
    /\ ~call.apply_env => ret.result.val = make_defaults

\* C5: for a path that does not exist the call never raises; it returns the
\* defaults, with every set and parseable override on top when apply_env, and the
\* plain defaults otherwise
C5_MissingPathGivesDefaults ==
    (pc = "returned" /\ ~script.exists) => MissingPathResult

\* C5 without "never raises": what the call returns, when it returns
C5_MissingPathWhenReturned ==
    (HasReturned /\ ~script.exists) => MissingPathResult

\* the level the resolution sets when PYSME_DEBUG is left out of account
LevelFromScript(d) ==
    IF d = PyNone THEN RootLevel(NoneStr, PyNone, environ)
    ELSE IF Truthy(d) THEN "DEBUG" ELSE "INFO"

\* C6 as stated: whenever the script binds debug, that binding decides the level and
\* PYSME_DEBUG is not consulted
C6_BoundDebugDecides ==
    (HasReturned /\ Executed /\ "debug" \in DOMAIN script.ns)
        => log.level = LevelFromScript(script.ns["debug"])

\* C6 amended: whenever the script binds debug to a value other than None, that
\* value decides the level (DEBUG if truthy, INFO if not) and PYSME_DEBUG is not
\* consulted; PYSME_DEBUG decides it only when the script binds no debug variable or
\* binds it to None
C6_NonNoneDebugDecides ==
    LET d == Get(script.ns, "debug", PyNone)
        e == environ["PYSME_DEBUG"]
    IN (HasReturned /\ Executed) =>
          /\ d # PyNone => log.level = (IF Truthy(d) THEN "DEBUG" ELSE "INFO")
          /\ (d = PyNone /\ SaysTrue(e)) => log.level = "DEBUG"
          /\ (d = PyNone /\ SaysFalse(e)) => log.level = "INFO"

\* C6's case: the script says debug = False, PYSME_DEBUG says true, the logger is at INFO
C6_Witness ==
    /\ HasReturned /\ Executed
    /\ "debug" \in DOMAIN script.ns
    /\ script.ns["debug"] = PyBool(FALSE)
    /\ SaysTrue(environ["PYSME_DEBUG"])
    /\ log.level = "INFO"

\* every tailwind variable that is set, non-empty and parseable shows in `tailwind`
TailwindEnvShowsIn(tailwind) == tailwind = ExpectedTailwind(tailwind)

\* the overrides show in the configs the call returned
OverridesShow ==
    /\ EnvShowsIn(ret.result.val.build)
    /\ TailwindEnvShowsIn(ret.result.val.tailwind)

\* C14 as stated: on every path that returns a LoadedConfigs under apply_env (script
\* missing, executed, without an import spec, or raising), every field whose
\* variable is set to a parseable value holds the environment's value
C14_OverridesOnEveryPath ==
    (HasReturned /\ call.apply_env) => OverridesShow

\* C14 amended: under apply_env the set, parseable variables show in the returned
\* configs when the script is missing or ran to its end; when it has no import spec
\* or raised, the plain defaults are returned
C14_OverridesWhereScriptRanOrMissing ==
    /\ (HasReturned /\ call.apply_env /\ (~script.exists \/ Executed)) => OverridesShow
    /\ (HasReturned /\ script.exists /\ ~Executed) => ret.result.val = make_defaults

\* C14's cases: a file without an import spec, PYSME_OUTPUT_DIR and
\* PYSME_TAILWIND_PLUGINS set, overrides asked for, and the plain defaults returned
C14_Witness ==
    /\ HasReturned /\ call.apply_env
    /\ script = NoLoaderFile
    /\ environ["PYSME_OUTPUT_DIR"] = "build"
    /\ environ["PYSME_TAILWIND_PLUGINS"] = "a, ,a"
    /\ ret.result.val.build.output_dir = BuildDefaults.output_dir
    /\ ret.result.val.tailwind.plugins = TailwindDefaults.plugins
    /\ ~OverridesShow

\* C12: whatever was loaded before, a load or reload gives what resolving the
\* script's current content with the current environment gives (the configs and the
\* raw bag, or the error), and the raw bag holds no binding the current content
\* does not make
C12_ReloadResolvesCurrentScript ==
    pc = "returned" =>
        /\ ret.result = load_pysme_config(script, environ, call.apply_env, log).result
        /\ ret.result.kind = "return" =>
              DOMAIN ret.result.val.raw \subseteq DOMAIN script.ns

----------------------------------------------------------------------------
(* errors.py: the taxonomy *)

\* the direct base class of each class, built-ins included
Base(cls) ==
    CASE cls = "PySmeError" -> "Exception"
      [] cls \in {"ConfigError", "BuildError", "ParserError", "PysmeRuntimeError",
                  "NotFoundError", "AuthError", "ValidationError", "DatabaseError"}
            -> "PySmeError"
      [] cls \in {"ConfigLoadError", "ConfigValidationError"} -> "ConfigError"
      [] cls \in {"ValueError", "TypeError", "KeyError", "OSError"} -> "Exception"
      [] cls = "Exception" -> "BaseException"
      [] cls \in BaseOnlyClasses -> "BaseException"
      [] OTHER -> "object"

RECURSIVE issubclass(_, _)
issubclass(cls, base) ==
    IF cls = base THEN TRUE
    ELSE IF cls = "object" THEN FALSE
    ELSE issubclass(Base(cls), base)

TaxonomyClasses ==
    {"PySmeError", "ConfigError", "ConfigLoadError", "ConfigValidationError",
     "BuildError", "ParserError", "PysmeRuntimeError", "NotFoundError", "AuthError",
     "ValidationError", "DatabaseError"}

\* the dataclass defaults of each taxonomy class (hint is NoneStr for None)
ClassDefaults(cls) ==
    CASE cls = "PySmeError" ->
            [code |-> "PSME:GEN:000", message |-> "An unknown PySme error occurred",
             hint |-> NoneStr, status_code |-> 500, safe |-> FALSE]
      [] cls = "ConfigError" ->
            [code |-> "PSME:CFG:001", message |-> "Configuration error",
             hint |-> NoneStr, status_code |-> 500, safe |-> FALSE]
      [] cls = "ConfigLoadError" ->
            [code |-> "PSME:CFG:002", message |-> "Failed to load configuration file",
             hint |-> "Check pysme.config.py for syntax errors or missing imports",
             status_code |-> 500, safe |-> FALSE]
      [] cls = "ConfigValidationError" ->
            [code |-> "PSME:CFG:003", message |-> "Configuration validation failed",
             hint |-> "Fix the invalid configuration fields",
             status_code |-> 400, safe |-> TRUE]
      [] cls = "BuildError" ->
            [code |-> "PSME:BLD:001", message |-> "Build/compile error",
             hint |-> NoneStr, status_code |-> 500, safe |-> FALSE]
      [] cls = "ParserError" ->
            [code |-> "PSME:PAR:001", message |-> "Parser error",
             hint |-> NoneStr, status_code |-> 400, safe |-> TRUE]
      [] cls = "PysmeRuntimeError" ->
            [code |-> "PSME:RTE:001", message |-> "Runtime error in component",
             hint |-> NoneStr, status_code |-> 500, safe |-> FALSE]
      [] cls = "NotFoundError" ->
            [code |-> "PSME:API:404", message |-> "Not found",
             hint |-> NoneStr, status_code |-> 404, safe |-> TRUE]
      [] cls = "AuthError" ->
            [code |-> "PSME:API:401", message |-> "Authentication / Authorization error",
             hint |-> NoneStr, status_code |-> 401, safe |-> TRUE]
      [] cls = "ValidationError" ->
            [code |-> "PSME:VAL:001", message |-> "Validation error",
             hint |-> NoneStr, status_code |-> 400, safe |-> TRUE]
      [] cls = "DatabaseError" ->
            [code |-> "PSME:DB:001", message |-> "Database error",
             hint |-> NoneStr, status_code |-> 500, safe |-> FALSE]

(* Python objects an __exit__ receives: None, a class, or an exception instance *)
NoneObj == [kind |-> "None"]
ClassObj(cls) == [kind |-> "class", cls |-> cls]
Instance(id) == [kind |-> "instance", id |-> id]

\* an exception object: its class, message (str(e) for a built-in), details,
\* __cause__ and __context__ (identities, 0 for None)
ExcObject(cls, message, details, cause, context) ==
    [cls |-> cls, message |-> message, details |-> details,
     cause |-> cause, context |-> context]

\* isinstance(obj, PySmeError)
IsPySmeError(obj, objs) ==
    obj.kind = "instance" /\ issubclass(objs[obj.id].cls, "PySmeError")

\* getattr(obj, "message", str(obj))
MessageOf(obj, objs) ==
    IF obj.kind = "instance" THEN objs[obj.id].message
    ELSE IF obj.kind = "class" /\ obj.cls \in TaxonomyClasses
         THEN ClassDefaults(obj.cls).message
    ELSE IF obj.kind = "class" THEN "<class '" \o obj.cls \o "'>"
    ELSE "None"

\* BaseException.__cause__ = value is accepted for None and for exception instances only
CauseAccepted(obj) == obj.kind \in {"None", "instance"}

\* cls(message=..., details=..., cause=...): the dataclass __init__, then
\* PySmeError.__post_init__, which assigns __cause__ when cause is truthy (a class
\* and an instance both are).  The new object, or the TypeError of the assignment.
NewPySmeError(cls, message, details, cause) ==
    IF cause.kind # "None" /\ ~CauseAccepted(cause)
    THEN Raised("TypeError")
    ELSE Returned(ExcObject(cls, message, details,
                            IF cause.kind = "instance" THEN cause.id ELSE 0, 0))


\* wrap_exception.__init__
wrap_exception(cls, message, kwargs) == [cls |-> cls, message |-> message, kwargs |-> kwargs]

\* wrap_exception.__exit__(self, exc_val, exc_type, exc_tb), called while the
\* exception `handling` (0: none) is in flight: False returned, or the identity of
\* the error raised, and the objects afterwards
wrap_exit(self, exc_val, exc_type, exc_tb, handling, objs) ==
    IF exc_val = NoneObj THEN [raises |-> 0, objs |-> objs]
    ELSE IF IsPySmeError(exc_val, objs)
    THEN [raises |-> 0,
          objs |-> IF self.kwargs # EmptyDict
                   THEN [objs EXCEPT ![exc_val.id].details =
                            Update(@, Get(self.kwargs, "details", EmptyDict))]
                   ELSE objs]
    ELSE LET msg == IF StrTruthy(self.message) THEN self.message
                    ELSE MessageOf(exc_val, objs)
             wrapped == NewPySmeError(self.cls, msg,
                                      Get(self.kwargs, "details", EmptyDict), exc_val)
             new == IF wrapped.kind = "raise"
                    THEN ExcObject(wrapped.exc, "exception cause must be None or derive from BaseException",
                                   EmptyDict, 0, handling)
                    ELSE [wrapped.val EXCEPT !.context = handling]
         IN [raises |-> Len(objs) + 1, objs |-> Append(objs, new)]

\* the with statement's call at the end of the block: __exit__(type(e), e, e.__traceback__),
\* or __exit__(None, None, None), arguments by position
WithExit(self, e, objs) ==
    IF e = 0 THEN wrap_exit(self, NoneObj, NoneObj, NoneObj, 0, objs)
    ELSE wrap_exit(self, ClassObj(objs[e].cls), Instance(e), [kind |-> "traceback"], e, objs)

----------------------------------------------------------------------------
(* The wrap_exception scope as a state machine *)

ScopeClasses == {"ConfigLoadError", "BuildError", "PySmeError"}
ScopeMessages == {NoneStr, "", "could not load"}
ScopeKwargs ==
    {EmptyDict, [details |-> EmptyDict], [details |-> [path |-> "cfg.py"]],
     [hint |-> "check the file"]}

\* the errors the protected block raises: two of the taxonomy, two that are not
BlockErrors ==
    {ExcObject("BuildError", "bundling failed", [stage |-> "link"], 0, 0),
     ExcObject("ConfigLoadError", ClassDefaults("ConfigLoadError").message, EmptyDict, 0, 0),
     ExcObject("ValueError", "boom", EmptyDict, 0, 0),
     ExcObject("KeyError", "'name'", EmptyDict, 0, 0)}

NoScope == [cls |-> "none"]
NoError == [id |-> 0]

WrapInit ==
    /\ excs = <<>>
    /\ scope = NoScope
    /\ raised = NoError
    /\ leaving = [kind |-> "none"]

otherThanWrap == <<loadVars, ctorVars, mergeVars, mapVars>>

\* with wrap_exception(cls, message=message, **kwargs):
EnterScope(cls, message, kwargs) ==
    /\ leaving.kind = "none"
    /\ scope = NoScope
    /\ scope' = wrap_exception(cls, message, kwargs)
    /\ leaving' = [kind |-> "inside"]
    /\ UNCHANGED <<excs, raised>>
    /\ UNCHANGED otherThanWrap

\* the block raises e
BlockRaises(e) ==
    /\ leaving.kind = "inside"
    /\ excs' = Append(excs, e)
    /\ raised' = [id |-> Len(excs) + 1, was |-> e]
    /\ leaving' = [kind |-> "exiting"]
    /\ UNCHANGED scope
    /\ UNCHANGED otherThanWrap

\* the block runs to its end
BlockCompletes ==
    /\ leaving.kind = "inside"
    /\ leaving' = [kind |-> "exiting"]
    /\ UNCHANGED <<excs, scope, raised>>
    /\ UNCHANGED otherThanWrap

\* the with statement calls __exit__ and goes on with what it says
ExitScope ==
    /\ leaving.kind = "exiting"
    /\ LET r == WithExit(scope, raised.id, excs)
       IN /\ excs' = r.objs
          /\ leaving' = IF r.raises # 0 THEN [kind |-> "raise", id |-> r.raises]
                        ELSE IF raised.id # 0 THEN [kind |-> "raise", id |-> raised.id]
                        ELSE [kind |-> "normal"]
    /\ UNCHANGED <<scope, raised>>
    /\ UNCHANGED otherThanWrap

LoadParked ==
    /\ environ = EmptyEnviron
    /\ script = MissingFile
    /\ log = Unconfigured
    /\ call = NoCall
    /\ ret = NoRet
    /\ pc = "idle"
    /\ pyc = NoPyc
    /\ configured = NoConf

InitWrap == WrapInit /\ LoadParked /\ CtorParked /\ MergeParked /\ MapParked

NextWrap ==
    \/ \E c \in ScopeClasses : \E m \in ScopeMessages : \E k \in ScopeKwargs :
          EnterScope(c, m, k)
    \/ \E e \in BlockErrors : BlockRaises(e)
    \/ BlockCompletes
    \/ ExitScope

SpecWrap == InitWrap /\ [][NextWrap]_vars

\* the scope has been left
Left == leaving.kind \in {"normal", "raise"}

C8_OtherErrorIsWrapped ==
    /\ (Left /\ raised.id # 0 /\ ~issubclass(raised.was.cls, "PySmeError")) =>
          /\ leaving.kind = "raise"
          /\ leaving.id # raised.id
          /\ excs[leaving.id].cls = scope.cls
          /\ excs[leaving.id].message =
                (IF StrTruthy(scope.message) THEN scope.message ELSE raised.was.message)
          /\ excs[leaving.id].details = Get(scope.kwargs, "details", EmptyDict)
          /\ excs[leaving.id].cause = raised.id
    /\ (Left /\ raised.id = 0) => leaving.kind = "normal"

----------------------------------------------------------------------------
(* errors.py: serialisation and the HTTP mapping *)

\* str(x) of a str is that str
PyStr(x) == x

\* traceback.format_exception(type(e), e, e.__traceback__): the lines of the trace
FormatException(cls) == <<"Traceback (most recent call last):", cls>>

\* "".join(lines)
JoinLines(lines) == lines[1] \o lines[2]

\* cls(**kwargs) for a class of the taxonomy: the dataclass fields with the class's
\* defaults overridden by the keyword arguments; cause is the class of the causing
\* exception, NoneStr for None, and becomes __cause__
NewError(cls, kwargs) ==
    LET d == ClassDefaults(cls)
    IN [cls |-> cls,
        code |-> Get(kwargs, "code", d.code),
        message |-> Get(kwargs, "message", d.message),
        details |-> Get(kwargs, "details", EmptyDict),
        hint |-> Get(kwargs, "hint", d.hint),
        cause |-> Get(kwargs, "cause", NoneStr),
        status_code |-> Get(kwargs, "status_code", d.status_code),
        safe |-> Get(kwargs, "safe", d.safe)]

\* an exception that is none of the taxonomy: its class and str(exc)
BuiltinError(cls, text) == [cls |-> cls, message |-> text]

\* PySmeError.to_dict(include_trace)
to_dict(self, include_trace) ==
    LET d == [code |-> self.code,
              message |-> IF self.safe THEN self.message ELSE PyStr(self.message),
              hint |-> self.hint,
              status_code |-> self.status_code,
              details |-> self.details]
    IN IF include_trace /\ self.cause # NoneStr
       THEN Update(d, [cause_type |-> self.cause,
                       traceback |-> FormatException(self.cause)])
       ELSE d

\* exception_to_dict(exc, include_trace)
exception_to_dict(exc, include_trace) ==
    IF issubclass(exc.cls, "PySmeError") THEN to_dict(exc, include_trace)
    ELSE LET d == [code |-> "PSME:GEN:ERR", message |-> exc.message,
                   type |-> exc.cls, safe |-> FALSE]
         IN IF include_trace
            THEN Update(d, [traceback |-> FormatException(exc.cls)])
            ELSE d

INTERNAL_SERVER_ERROR == 500

\* map_exception_to_http_response(exc, include_trace): (status_code, json_body)
map_exception_to_http_response(exc, include_trace) ==
    IF issubclass(exc.cls, "PySmeError")
    THEN [status |-> IF exc.status_code # 0 THEN exc.status_code
                     ELSE INTERNAL_SERVER_ERROR,
          body |-> to_dict(exc, include_trace)]
    ELSE LET body == [code |-> "PSME:GEN:000", message |-> "Internal server error",
                      type |-> exc.cls]
         IN [status |-> INTERNAL_SERVER_ERROR,
             body |-> IF include_trace
                      THEN Update(body, [traceback |-> JoinLines(FormatException(exc.cls))])
                      ELSE body]

----------------------------------------------------------------------------
(* The HTTP boundary as a state machine *)

RawMessage == "password rejected for admin@db01"

\* the keyword arguments the errors drawn are built with
BoundaryKwargs ==
    {Update(Update(Update(m, f), c), t) :
        m \in {EmptyDict, Bind("message", RawMessage)},
        f \in {EmptyDict, Bind("safe", TRUE), Bind("safe", FALSE)},
        c \in {EmptyDict, Bind("status_code", 503), Bind("status_code", 0)},
        t \in {EmptyDict, Bind("cause", "KeyError")}}

\* the exceptions that reach the boundary: every class of the taxonomy, and two
\* exceptions that are none of it
BoundaryErrors ==
    {NewError(cls, k) : cls \in TaxonomyClasses, k \in BoundaryKwargs}
    \cup {BuiltinError("ValueError", "boom"), BuiltinError("KeyError", "'name'")}

NoException == [cls |-> "none"]
NoResponse == [kind |-> "none"]

MapInit == given = NoException /\ response = NoResponse

otherThanMap == <<loadVars, ctorVars, wrapVars, mergeVars>>

\* an exception reaches the boundary
Surface(e) ==
    /\ given = NoException
    /\ given' = e
    /\ UNCHANGED response
    /\ UNCHANGED otherThanMap

\* status, body = map_exception_to_http_response(exc, include_trace)
MapToResponse(include_trace) ==
    /\ given # NoException
    /\ response = NoResponse
    /\ LET r == map_exception_to_http_response(given, include_trace)
       IN response' = [kind |-> "http", status |-> r.status, body |-> r.body]
    /\ UNCHANGED given
    /\ UNCHANGED otherThanMap

\* d = exception_to_dict(exc, include_trace)
ExceptionToDict(include_trace) ==
    /\ given # NoException
    /\ response = NoResponse
    /\ response' = [kind |-> "dict", body |-> exception_to_dict(given, include_trace)]
    /\ UNCHANGED given
    /\ UNCHANGED otherThanMap

\* the response is sent
Respond ==
    /\ response # NoResponse
    /\ given' = NoException
    /\ response' = NoResponse
    /\ UNCHANGED otherThanMap

InitMap == MapInit /\ LoadParked /\ CtorParked /\ WrapParked /\ MergeParked

NextMap ==
    \/ \E e \in BoundaryErrors : Surface(e)
    \/ \E t \in BOOLEAN : MapToResponse(t)
    \/ \E t \in BOOLEAN : ExceptionToDict(t)
    \/ Respond

SpecMap == InitMap /\ [][NextMap]_vars

\* C11: for a PySmeError the status of the pair is the error's status_code, and the
\* message of the body is the error's raw message when safe is true, and a generic
\* message, never the raw one, when safe is false
C11_SafeFlagDecidesMessage ==
    (response.kind = "http" /\ issubclass(given.cls, "PySmeError")) =>
        /\ response.status = given.status_code
        /\ given.safe => response.body["message"] = given.message
        /\ ~given.safe => response.body["message"] # given.message

\* the part of C11 the code keeps: a safe error's raw message with the error's
\* status code, whenever that code is not 0
C11_SafeErrorsShowMessage ==
    (response.kind = "http" /\ issubclass(given.cls, "PySmeError")
        /\ given.safe /\ given.status_code # 0) =>
        /\ response.status = given.status_code
        /\ response.body["message"] = given.message

----------------------------------------------------------------------------
(* BuildConfig construction as a state machine *)

OptLevels == {"release", "debug", "fast", ""}

\* the keyword arguments drawn: any subset of four fields, each with its values
CtorKwargs ==
    {Update(Update(Update(o, e), b), d) :
        o \in {EmptyDict} \cup {Bind("optimization_level", l) : l \in OptLevels},
        e \in {EmptyDict, Bind("entry_point", "src/app.pysme")},
        b \in {EmptyDict, Bind("bundle_splitting", TRUE)},
        d \in {EmptyDict, Bind("output_dir", "build")}}

\* the mappings drawn for from_dict: the same, with or without a key that is no field
CtorDicts == {Update(k, x) : k \in CtorKwargs, x \in {EmptyDict, Bind("minify", "yes")}}

CtorInit == ctor_args = EmptyDict /\ ctor_ret = [kind |-> "none"]

otherThanCtor == <<loadVars, wrapVars, mergeVars, mapVars>>

\* BuildConfig(**kwargs)
Construct(kwargs) ==
    /\ ctor_ret.kind = "none"
    /\ ctor_args' = [via |-> "BuildConfig", data |-> kwargs]
    /\ ctor_ret' = NewBuildConfig(kwargs)
    /\ UNCHANGED otherThanCtor

\* BuildConfig.from_dict(data)
FromDict(data) ==
    /\ ctor_ret.kind = "none"
    /\ ctor_args' = [via |-> "from_dict", data |-> data]
    /\ ctor_ret' = BuildFromDict(data)
    /\ UNCHANGED otherThanCtor

InitCtor == CtorInit /\ LoadParked /\ WrapParked /\ MergeParked /\ MapParked

NextCtor ==
    \/ \E k \in CtorKwargs : Construct(k)
    \/ \E d \in CtorDicts : FromDict(d)

SpecCtor == InitCtor /\ [][NextCtor]_vars

\* C3: construction, direct or through from_dict, succeeds for the optimization
\* levels release and debug, and for any other level fails with an error of class
\* ConfigValidationError
C3_BadLevelIsConfigValidationError ==
    ctor_ret.kind # "none" =>
        LET level == Get(ctor_args.data, "optimization_level",
                         BuildDefaults.optimization_level)
        IN /\ level \in {"release", "debug"} => ctor_ret.kind = "return"
           /\ level \notin {"release", "debug"} =>
                 /\ ctor_ret.kind = "raise"
                 /\ issubclass(ctor_ret.exc, "ConfigValidationError")

----------------------------------------------------------------------------
(* builder/tailwind.py: deep_merge and TailwindConfig.merge over mutable objects *)

(* The heap is a sequence of mutable objects, a dict [t |-> "dict", d |-> f] or a  *)
(* list [t |-> "list", l |-> s], addressed by position.  A value is an int, a str  *)
(* or a reference to an object.  The lists drawn hold ints and strs only.  A tree  *)
(* by value (PDict, PList over ints) is what two structures are compared by.       *)
IntV(n) == [t |-> "int", v |-> n]
StrV(x) == [t |-> "str", v |-> x]
Ref(a) == [t |-> "ref", a |-> a]
DictObj(d) == [t |-> "dict", d |-> d]
ListObj(l) == [t |-> "list", l |-> l]
PDict(d) == [t |-> "dict", d |-> d]
PList(l) == [t |-> "list", l |-> l]

\* isinstance(v, Dict)
IsDict(h, v) == v.t = "ref" /\ h[v.a].t = "dict"

\* the tree by value that v stands for in heap h
RECURSIVE DeepValue(_, _)
DeepValue(h, v) ==
    IF v.t # "ref" THEN v
    ELSE IF h[v.a].t = "list" THEN PList(h[v.a].l)
    ELSE PDict([k \in DOMAIN h[v.a].d |-> DeepValue(h, h[v.a].d[k])])

\* the addresses reachable from v
RECURSIVE Reach(_, _)
Reach(h, v) ==
    IF v.t # "ref" THEN {}
    ELSE IF h[v.a].t = "list" THEN {v.a}
    ELSE {v.a} \cup UNION {Reach(h, h[v.a].d[k]) : k \in DOMAIN h[v.a].d}

\* copy.deepcopy(v): the heap with the copies in it, and the copy
RECURSIVE deepcopy(_, _)
RECURSIVE CopyItems(_, _, _, _)
CopyItems(h, src, keys, acc) ==
    IF keys = {} THEN [h |-> h, d |-> acc]
    ELSE LET k == CHOOSE x \in keys : TRUE
             c == deepcopy(h, src[k])
         IN CopyItems(c.h, src, keys \ {k}, Update(acc, Bind(k, c.v)))

deepcopy(h, v) ==
    IF v.t # "ref" THEN [h |-> h, v |-> v]
    ELSE IF h[v.a].t = "list"
         THEN [h |-> Append(h, ListObj(h[v.a].l)), v |-> Ref(Len(h) + 1)]
    ELSE LET items == CopyItems(h, h[v.a].d, DOMAIN h[v.a].d, EmptyDict)
         IN [h |-> Append(items.h, DictObj(items.d)), v |-> Ref(Len(items.h) + 1)]

\* deepcopy that hands back the object itself: result[k] = v
aliasing_copy(h, v) == [h |-> h, v |-> v]

\* the copy deep_merge stores for a value of b it takes over: result[k] = deepcopy(v)
CopyOfTaken(h, v) == deepcopy(h, v)

\* the branch without the recursion: b's value always replaces a's
NeverBothDicts(h, cur, k, v) == FALSE

\* the branch of deep_merge's loop for key k: recurse when both values are dicts
BothDicts(h, cur, k, v) == k \in DOMAIN cur /\ IsDict(h, cur[k]) /\ IsDict(h, v)

\* deep_merge(a, b) for references a and b to dicts: the heap afterwards and the result
RECURSIVE deep_merge(_, _, _)
RECURSIVE MergeItems(_, _, _, _)
MergeItems(h, result, b, keys) ==
    IF keys = {} THEN h
    ELSE LET k == CHOOSE x \in keys : TRUE
             v == h[b.a].d[k]
             cur == h[result.a].d
             new == IF BothDicts(h, cur, k, v)
                    THEN deep_merge(h, cur[k], v)
                    ELSE CopyOfTaken(h, v)
             h2 == [new.h EXCEPT ![result.a].d = Update(@, Bind(k, new.v))]
         IN MergeItems(h2, result, b, keys \ {k})

deep_merge(h, a, b) ==
    LET copied == deepcopy(h, a)
        result == copied.v
    IN [h |-> MergeItems(copied.h, result, b, DOMAIN h[b.a].d), v |-> result]

\* the orders list(set(...)) can give the elements of a set
Orders(S) == {o \in [1..Cardinality(S) -> S] : \A i, j \in DOMAIN o : o[i] = o[j] => i = j}

Elements(l) == {l[i] : i \in DOMAIN l}

\* TailwindConfig.merge(self, other), with the orders the two list(set(...)) gave:
\* the heap afterwards and the new TailwindConfig
TailwindMerge(h, self, other, content_order, plugins_order) ==
    LET merged_theme == deep_merge(h, self.theme, other.theme)
        h1 == Append(merged_theme.h, ListObj(plugins_order))
        merged_plugins == Ref(Len(h1))
        h2 == Append(h1, ListObj(content_order))
    IN [h |-> h2,
        v |-> [content |-> Ref(Len(h2)), theme |-> merged_theme.v,
               plugins |-> merged_plugins]]

----------------------------------------------------------------------------
(* TailwindConfig.merge as a state machine *)

\* how many times the merged config is mutated afterwards
MaxMutations == 2

\* the object a tree by value is built as: the heap with it, and its value
RECURSIVE Alloc(_, _)
RECURSIVE AllocItems(_, _, _, _)
AllocItems(h, src, keys, acc) ==
    IF keys = {} THEN [h |-> h, d |-> acc]
    ELSE LET k == CHOOSE x \in keys : TRUE
             c == Alloc(h, src[k])
         IN AllocItems(c.h, src, keys \ {k}, Update(acc, Bind(k, c.v)))

Alloc(h, p) ==
    IF p.t = "list" THEN [h |-> Append(h, ListObj(p.l)), v |-> Ref(Len(h) + 1)]
    ELSE IF p.t = "dict"
         THEN LET items == AllocItems(h, p.d, DOMAIN p.d, EmptyDict)
              IN [h |-> Append(items.h, DictObj(items.d)), v |-> Ref(Len(items.h) + 1)]
    ELSE [h |-> h, v |-> p]

\* TailwindConfig(content=..., theme=..., plugins=...) from trees by value
NewTailwind(h, content, theme, plugins) ==
    LET c == Alloc(h, PList(content))
        t == Alloc(c.h, theme)
        p == Alloc(t.h, PList(plugins))
    IN [h |-> p.h, v |-> [content |-> c.v, theme |-> t.v, plugins |-> p.v]]

\* the theme trees drawn: key x absent, a leaf, or a dict one or two levels deep;
\* key y absent or a leaf
Leaves == {IntV(1), IntV(2), PList(<<IntV(1)>>)}
Deeper == {PDict(Bind("r", l)) : l \in {IntV(1), IntV(2)}}
Inner ==
    {PDict(EmptyDict), PDict(Bind("q", IntV(2)))}
    \cup {PDict(Bind("p", v)) : v \in Leaves \cup Deeper}
Themes ==
    {PDict(Update(x, y)) :
        x \in {EmptyDict} \cup {Bind("x", v) : v \in Leaves \cup Inner},
        y \in {EmptyDict, Bind("y", IntV(1))}}

NoConfig == [content |-> IntV(0), theme |-> IntV(0), plugins |-> IntV(0)]

\* content, theme and plugins of a config, by value
Snapshot(h, cfg) ==
    [content |-> DeepValue(h, cfg.content),
     theme |-> DeepValue(h, cfg.theme),
     plugins |-> DeepValue(h, cfg.plugins)]

\* the objects a config holds, at any depth
Objects(h, cfg) == Reach(h, cfg.content) \cup Reach(h, cfg.theme) \cup Reach(h, cfg.plugins)

MergeInit ==
    \E ta \in Themes, tb \in Themes :
        LET a == NewTailwind(<<>>, <<StrV("**/*.pysme"), StrV("**/*.py")>>, ta,
                             <<StrV("forms")>>)
            b == NewTailwind(a.h, <<StrV("**/*.py")>>, tb, <<>>)
        IN /\ heap = b.h
           /\ opA = a.v
           /\ opB = b.v
           /\ opC = NoConfig
           /\ snapA = Snapshot(b.h, a.v)
           /\ snapB = Snapshot(b.h, b.v)
           /\ mutations = 0

otherThanMerge == <<loadVars, ctorVars, wrapVars, mapVars>>

\* c = a.merge(b)
Merge ==
    /\ opC = NoConfig
    /\ \E co \in Orders(Elements(heap[opA.content.a].l \o heap[opB.content.a].l)) :
       \E po \in Orders(Elements(heap[opA.plugins.a].l \o heap[opB.plugins.a].l)) :
          LET m == TailwindMerge(heap, opA, opB, co, po)
          IN heap' = m.h /\ opC' = m.v
    /\ UNCHANGED <<opA, opB, snapA, snapB, mutations>>
    /\ UNCHANGED otherThanMerge

\* a later mutation of c, in place: of one of its lists or of a dict of its theme
\* tree at any depth
Mutated(obj, op) ==
    IF obj.t = "list"
    THEN IF op = "grow" THEN ListObj(Append(obj.l, IntV(0))) ELSE ListObj(<<>>)
    ELSE IF op = "grow" THEN DictObj(Update(obj.d, Bind("z", IntV(0))))
         ELSE DictObj(EmptyDict)

MutateMerged(addr, op) ==
    /\ opC # NoConfig
    /\ mutations < MaxMutations
    /\ addr \in Objects(heap, opC)
    /\ heap' = [heap EXCEPT ![addr] = Mutated(@, op)]
    /\ mutations' = mutations + 1
    /\ UNCHANGED <<opA, opB, opC, snapA, snapB>>
    /\ UNCHANGED otherThanMerge

InitMerge == MergeInit /\ LoadParked /\ CtorParked /\ WrapParked /\ MapParked

NextMerge ==
    \/ Merge
    \/ \E addr \in DOMAIN heap : \E op \in {"grow", "clear"} : MutateMerged(addr, op)

SpecMerge == InitMerge /\ [][NextMerge]_vars

\* m is the deep merge of x and y, as section 4.2 puts it, on trees by value
RECURSIVE IsDeepMerge(_, _, _)
IsDeepMerge(m, x, y) ==
    /\ m.t = "dict"
    /\ DOMAIN m.d = DOMAIN x.d \cup DOMAIN y.d
    /\ \A k \in DOMAIN m.d :
          IF k \notin DOMAIN y.d THEN m.d[k] = x.d[k]
          ELSE IF k \notin DOMAIN x.d THEN m.d[k] = y.d[k]
          ELSE IF x.d[k].t = "dict" /\ y.d[k].t = "dict"
               THEN IsDeepMerge(m.d[k], x.d[k], y.d[k])
          ELSE m.d[k] = y.d[k]

\* C9: the theme of a.merge(b) is the deep merge of the two themes: a key of one side
\* only keeps that side's value, a key of both with two mappings holds their deep
\* merge, a key of both with any other pair holds b's value
C9_ThemeIsDeepMerge ==
    (opC # NoConfig /\ mutations = 0)
        => IsDeepMerge(DeepValue(heap, opC.theme), snapA.theme, snapB.theme)

\* C9's case: both themes hold a mapping under x, both of these a mapping under p,
\* and these disagree on r: the merge went two levels down and took b's value
C9_Witness ==
    /\ opC # NoConfig /\ mutations = 0
    /\ snapA.theme = PDict(Bind("x", PDict(Bind("p", PDict(Bind("r", IntV(1)))))))
    /\ snapB.theme =
          PDict(Update(Bind("x", PDict(Bind("p", PDict(Bind("r", IntV(2)))))),
                       Bind("y", IntV(1))))
    /\ DeepValue(heap, opC.theme) = snapB.theme

\* C10: once c = a.merge(b) exists, a and b hold what they held before the call,
\* whatever is done to c afterwards, and c shares no object with either
C10_OperandsUntouched ==
    opC # NoConfig =>
        /\ Snapshot(heap, opA) = snapA
        /\ Snapshot(heap, opB) = snapB
        /\ Objects(heap, opC) \cap (Objects(heap, opA) \cup Objects(heap, opB)) = {}

\* C10's case: c's theme was changed two levels down, under a key it took from b
C10_Witness ==
    /\ opC # NoConfig /\ mutations > 0
    /\ snapB.theme = PDict(Bind("x", PDict(Bind("p", PDict(Bind("r", IntV(2)))))))
    /\ snapA.theme = PDict(EmptyDict)
    /\ DeepValue(heap, opC.theme) =
          PDict(Bind("x", PDict(Bind("p", PDict(Update(Bind("r", IntV(2)), Bind("z", IntV(0))))))))
    /\ Snapshot(heap, opB) = snapB

====
